---- MODULE Spec2Model ----
(***************************************************************************)
(* A model of the bingry_blockchain ledger: Transaction, Block, Blockchain *)
(* (src/src/transaction.rs, block.rs, blockchain.rs) and the TCP session   *)
(* handler that shares one Blockchain behind a Mutex (src/src/server.rs).  *)
(*                                                                         *)
(* Strings of the program are TLA+ strings; concatenation is \o and the    *)
(* decimal rendering of an integer is ToString, so that two different      *)
(* field tuples with the same concatenation really are the same pre-image. *)
(*                                                                         *)
(* sha256::digest is modelled as a collision-free function: the digest of  *)
(* d is the string "sha256(d)".  TLC cannot look inside a string, so the   *)
(* number of leading '0' characters of a string s is modelled by           *)
(* LeadingZeros(s): exact for the literals "" and "0", and for a digest a  *)
(* fixed pseudo-random function of the pre-image (of its length) taking    *)
(* the values 0, 1 and 2, so that a proof-of-work search has to try        *)
(* several nonces and a re-hashed block may miss the target.               *)
(*                                                                         *)
(* u64 is modelled with the width U64_MAX = 1000 (TLC integers are 32 bit).*)
(***************************************************************************)
EXTENDS Integers, Sequences, FiniteSets, TLC

VARIABLES
    bc,        \* the Blockchain value (the one behind the Mutex in server.rs)
    last,      \* the last call made on the ledger API: its name and argument
    pc,        \* per session: position of handle_client
    req,       \* per session: the decoded request being served
    resp,      \* per session: the response computed for the request
    lock,      \* holder of the Mutex<Blockchain> (0 = free)
    work,      \* per session: locals of the ledger operation in progress
    tampered,  \* how many times a stored block was mutated through its pub fields
    blk,       \* a Block on which mine_block is called, and the position of the call
    txn        \* a Transaction value in the hands of a caller, and how it was made

vars == <<bc, last, pc, req, resp, lock, work, tampered, blk, txn>>

(***************************************************************************)
(* Bounds of the model.                                                    *)
(***************************************************************************)
MaxChain == 3      \* blocks in the chain, genesis included
MaxTxs == 2        \* transactions accepted into the pool over a run
MaxTamper == 2     \* direct mutations of stored blocks over a run
MaxPending == 2    \* transactions waiting in the pool of the served ledger

(***************************************************************************)
(* Program constants.                                                      *)
(***************************************************************************)
U64_MAX == 1000                    \* u64::MAX, scaled
MINING_REWARD == 100               \* blockchain.rs:25
SERVER_DIFFICULTY == 2             \* server.rs:40, main.rs:12
COINBASE == "coinbase_reward"      \* transaction.rs:57,81  blockchain.rs:67,97
UNSIGNED_COINBASE_TX == "UNSIGNED_COINBASE_TX"

(***************************************************************************)
(* Wallets (wallet.rs).  An address is the hex of a compressed public key; *)
(* the signing key of address a is named "k" \o a.                         *)
(***************************************************************************)
Wallets == {"a1", "b2"}

get_private_key(address) == "k" \o address

\* VerifyingKey::from_sec1_bytes succeeds exactly on encodings of curve points.
from_sec1_bytes_ok(pk) == pk \in Wallets

(***************************************************************************)
(* sha256::digest and the difficulty predicate.                            *)
(***************************************************************************)
digest(data) == "sha256(" \o data \o ")"

LeadingZeros(s) ==
    IF s = "" THEN 0
    ELSE IF s = "0" THEN 1
    ELSE IF Len(s) % 2 = 1 THEN 2
    ELSE (Len(s) % 4) \div 2

\* hash.starts_with(&"0".repeat(difficulty))
starts_with_zeros(s, difficulty) == LeadingZeros(s) >= difficulty

(***************************************************************************)
(* ECDSA over secp256k1 (k256).  sign_prehash is deterministic (RFC 6979); *)
(* verify_prehash accepts every valid (r, s) for the key and the prehash,  *)
(* of which ecdsa_other is a second one (another nonce k).                 *)
(***************************************************************************)
sign_prehash(key, prehash) == "sig(" \o key \o "," \o prehash \o ")"

ecdsa_other(key, prehash) == "sig2(" \o key \o "," \o prehash \o ")"

\* mutant: every well-formed signature verifies
verify_prehash_unchecked(pk, prehash, signature) == TRUE

verify_prehash(pk, prehash, signature) ==
    \/ signature = sign_prehash(get_private_key(pk), prehash)
    \/ signature = ecdsa_other(get_private_key(pk), prehash)

(***************************************************************************)
(* Transaction (transaction.rs).                                           *)
(***************************************************************************)
Transaction_new(sender, recipient, amount, now) ==
    [sender |-> sender, recipient |-> recipient, amount |-> amount,
     timestamp |-> now, public_key |-> "", signature |-> ""]

\* mutant: the four fields are joined with a separator
calculate_hash_for_signing_delimited(tx) ==
    digest(tx.sender \o "|" \o tx.recipient \o "|" \o ToString(tx.amount)
             \o "|" \o ToString(tx.timestamp))

calculate_hash_for_signing(tx) ==
    digest(tx.sender \o tx.recipient \o ToString(tx.amount) \o ToString(tx.timestamp))

sign(tx, signing_key, public_key_hex) ==
    IF tx.sender = COINBASE
    THEN [tx EXCEPT !.public_key = public_key_hex,
                    !.signature = UNSIGNED_COINBASE_TX]
    ELSE [tx EXCEPT !.signature = sign_prehash(signing_key, calculate_hash_for_signing(tx)),
                    !.public_key = public_key_hex]

(***************************************************************************)
(* hex::decode.  It rejects a string holding a character outside           *)
(* 0-9a-fA-F and accepts both cases of a letter: a string and the same     *)
(* string with a letter in the other case decode to the same bytes.        *)
(* TLC cannot index a string, so the string made from s by replacing its   *)
(* i-th character is named by s, i and what the new character is to the   *)
(* old one: the same hex letter in the other case, another hex digit, or   *)
(* no hex digit.  Position 1 of a hex string of the model holds a letter   *)
(* and position 2 a decimal digit, as in the addresses "a1" and "b2".      *)
(***************************************************************************)
HexPositions == {1, 2}
ByteClasses == {"other_case", "other_hex_digit", "not_hex"}

hex_letter_at(s, i) == i = 1

replace_byte(s, i, class) == s \o "[" \o ToString(i) \o ":" \o class \o "]"

\* the transactions a caller builds with Transaction::new before signing
TxUnsigned ==
    { Transaction_new(s, r, a, 3) :
        s \in Wallets \cup {COINBASE}, r \in Wallets \cup {""}, a \in {0, 40} }

\* the hex strings whose bytes get replaced: addresses and signatures
ByteTargets ==
    Wallets \cup { sign_prehash(get_private_key(w), calculate_hash_for_signing(tx)) :
                     w \in Wallets, tx \in TxUnsigned }

OtherCaseForms ==
    UNION { { replace_byte(t, i, "other_case") :
                i \in {j \in HexPositions : hex_letter_at(t, j)} } :
            t \in ByteTargets }

\* Strings that hex::decode rejects.
NonHex ==
    {COINBASE, UNSIGNED_COINBASE_TX, "INVALID_SIGNATURE"}
        \cup { replace_byte(t, i, "not_hex") : t \in ByteTargets, i \in HexPositions }

hex_decode_ok(s) == s \notin NonHex

\* the decoded bytes, written as their lower-case hex
hex_decode(s) ==
    IF s \in OtherCaseForms
    THEN CHOOSE t \in ByteTargets :
            \E i \in HexPositions : s = replace_byte(t, i, "other_case")
    ELSE s

\* mutant: the sender is not compared with the public key
is_valid_any_public_key(tx) ==
    IF tx.sender = COINBASE
    THEN tx.signature = UNSIGNED_COINBASE_TX /\ tx.recipient # "" /\ tx.amount > 0
    ELSE /\ ~(tx.public_key = "" \/ tx.signature = "")
         /\ ~(tx.amount <= 0)
         /\ ~(tx.sender = "" \/ tx.recipient = "")
         /\ hex_decode_ok(tx.public_key)
         /\ hex_decode_ok(tx.signature)
         /\ from_sec1_bytes_ok(hex_decode(tx.public_key))
         /\ verify_prehash(hex_decode(tx.public_key), calculate_hash_for_signing(tx),
                           hex_decode(tx.signature))

is_valid(tx) ==
    IF tx.sender = COINBASE
    THEN tx.signature = UNSIGNED_COINBASE_TX /\ tx.recipient # "" /\ tx.amount > 0
    ELSE /\ ~(tx.public_key = "" \/ tx.signature = "")
         /\ ~(tx.amount <= 0)
         /\ ~(tx.sender = "" \/ tx.recipient = "")
         /\ ~(tx.sender # tx.public_key)
         /\ hex_decode_ok(tx.public_key)
         /\ hex_decode_ok(tx.signature)
         /\ from_sec1_bytes_ok(hex_decode(tx.public_key))
         /\ verify_prehash(hex_decode(tx.public_key), calculate_hash_for_signing(tx),
                           hex_decode(tx.signature))

(***************************************************************************)
(* Block (block.rs).                                                       *)
(***************************************************************************)
Block_new(index, previous_hash, transactions, now) ==
    [index |-> index, timestamp |-> now, transactions |-> transactions,
     previous_hash |-> previous_hash, hash |-> "", nonce |-> 0]

RECURSIVE TxHashes(_)
TxHashes(txs) ==
    IF txs = <<>> THEN ""
    ELSE calculate_hash_for_signing(Head(txs)) \o TxHashes(Tail(txs))

calculate_hash(b) ==
    digest(ToString(b.index) \o ToString(b.timestamp) \o b.previous_hash
           \o ToString(b.nonce) \o TxHashes(b.transactions))

\* mutant: the loop body runs at most once
mine_block_one_try(b, difficulty) ==
    IF starts_with_zeros(b.hash, difficulty) THEN b
    ELSE LET b1 == [b EXCEPT !.nonce = b.nonce + 1]
         IN  [b1 EXCEPT !.hash = calculate_hash(b1)]

RECURSIVE mine_block(_, _)
mine_block(b, difficulty) ==
    IF starts_with_zeros(b.hash, difficulty) THEN b
    ELSE LET b1 == [b EXCEPT !.nonce = b.nonce + 1]
         IN  mine_block([b1 EXCEPT !.hash = calculate_hash(b1)], difficulty)

(***************************************************************************)
(* Blockchain (blockchain.rs).  A ledger is the record                     *)
(* [chain, difficulty, pending_transactions, mining_reward].               *)
(***************************************************************************)
\* mutant: chain.first() instead of chain.last()
get_latest_block_first(b) == b.chain[1]

get_latest_block(b) == b.chain[Len(b.chain)]

create_genesis_block(b, now) ==
    LET genesis_block == mine_block(Block_new(0, "0", <<>>, now), b.difficulty)
    IN  [b EXCEPT !.chain = Append(b.chain,
                     [genesis_block EXCEPT !.hash = calculate_hash(genesis_block)])]

Blockchain_new(difficulty, now) ==
    create_genesis_block([chain |-> <<>>, difficulty |-> difficulty,
                          pending_transactions |-> <<>>,
                          mining_reward |-> MINING_REWARD], now)

\* mutant: chain.insert(0, new_block) instead of chain.push(new_block)
add_block_at_front(b, new_block) ==
    LET linked == [new_block EXCEPT !.previous_hash = b.chain[Len(b.chain)].hash]
        mined == mine_block(linked, b.difficulty)
    IN  [b EXCEPT !.chain = <<[mined EXCEPT !.hash = calculate_hash(mined)]>> \o b.chain]

add_block(b, new_block) ==
    LET linked == [new_block EXCEPT !.previous_hash = get_latest_block(b).hash]
        mined == mine_block(linked, b.difficulty)
    IN  [b EXCEPT !.chain = Append(b.chain, [mined EXCEPT !.hash = calculate_hash(mined)])]

\* Transaction::new("coinbase_reward", miner_address, mining_reward): never signed.
reward_transaction(b, miner_address, now) ==
    Transaction_new(COINBASE, miner_address, b.mining_reward, now)

\* mutant: the reward is pushed behind the drained pool
mine_drain_reward_last(b, miner_address, now) ==
    LET reward_tx == Transaction_new(COINBASE, miner_address, b.mining_reward, now)
        transactions_to_mine == b.pending_transactions \o <<reward_tx>>
    IN  [ledger |-> [b EXCEPT !.pending_transactions = <<>>],
         new_block |-> Block_new(Len(b.chain), b.chain[Len(b.chain)].hash,
                                 transactions_to_mine, now)]

\* the part of mine_pending_transactions before add_block: the pool is
\* drained into the new block's transaction list, behind the reward
mine_drain(b, miner_address, now) ==
    LET reward_tx == reward_transaction(b, miner_address, now)
        transactions_to_mine == <<reward_tx>> \o b.pending_transactions
    IN  [ledger |-> [b EXCEPT !.pending_transactions = <<>>],
         new_block |-> Block_new(Len(b.chain), get_latest_block(b).hash,
                                 transactions_to_mine, now)]

\* mutant: no early return on an empty pool
mine_pending_transactions_always(b, miner_address, now) ==
    add_block(mine_drain(b, miner_address, now).ledger,
              mine_drain(b, miner_address, now).new_block)

mine_pending_transactions(b, miner_address, now) ==
    IF b.pending_transactions = <<>> THEN b
    ELSE LET drained == mine_drain(b, miner_address, now)
         IN  add_block(drained.ledger, drained.new_block)

\* mutant: the debit applied twice
saturating_sub_twice(x, y) == IF x < 2 * y THEN 0 ELSE x - 2 * y

saturating_sub(x, y) == IF x < y THEN 0 ELSE x - y

saturating_add(x, y) == IF x > U64_MAX - y THEN U64_MAX ELSE x + y

\* mutant: the credit is applied before the debit
balance_step_credit_first(balance, tx, address) ==
    LET credited == IF tx.recipient = address
                    THEN saturating_add(balance, tx.amount) ELSE balance
    IN  IF tx.sender = address /\ tx.sender # COINBASE
        THEN saturating_sub(credited, tx.amount) ELSE credited

\* one iteration of the inner loop of get_balance_of_address
balance_step(balance, tx, address) ==
    LET debited == IF tx.sender = address /\ tx.sender # COINBASE
                   THEN saturating_sub(balance, tx.amount) ELSE balance
    IN  IF tx.recipient = address THEN saturating_add(debited, tx.amount) ELSE debited

RECURSIVE balance_over_txs(_, _, _)
balance_over_txs(balance, txs, address) ==
    IF txs = <<>> THEN balance
    ELSE balance_over_txs(balance_step(balance, Head(txs), address), Tail(txs), address)

RECURSIVE balance_over_chain(_, _, _)
balance_over_chain(balance, chain, address) ==
    IF chain = <<>> THEN balance
    ELSE balance_over_chain(balance_over_txs(balance, Head(chain).transactions, address),
                            Tail(chain), address)

get_balance_of_address(b, address) == balance_over_chain(0, b.chain, address)

\* mutant: the gate also looks up the sender's balance on the chain
add_transaction_checks_balance(b, transaction) ==
    IF ~is_valid(transaction) \/ get_balance_of_address(b, transaction.sender) < transaction.amount THEN b
    ELSE [b EXCEPT !.pending_transactions = Append(b.pending_transactions, transaction)]

add_transaction(b, transaction) ==
    IF ~is_valid(transaction) THEN b
    ELSE [b EXCEPT !.pending_transactions = Append(b.pending_transactions, transaction)]

\* mutant: the loop trusts the stored hash instead of recomputing it
block_checks_stored_hash(b, i) ==
    LET current_block == b.chain[i]
        previous_block == b.chain[i - 1]
    IN  /\ current_block.previous_hash = previous_block.hash
        /\ starts_with_zeros(current_block.hash, b.difficulty)
        /\ \A j \in 1..Len(current_block.transactions) :
              is_valid(current_block.transactions[j])

\* the four checks is_chain_valid makes on block i (1-based position i >= 2)
block_checks(b, i) ==
    LET current_block == b.chain[i]
        previous_block == b.chain[i - 1]
    IN  /\ current_block.hash = calculate_hash(current_block)
        /\ current_block.previous_hash = previous_block.hash
        /\ starts_with_zeros(current_block.hash, b.difficulty)
        /\ \A j \in 1..Len(current_block.transactions) :
              is_valid(current_block.transactions[j])

is_chain_valid(b) == \A i \in 2..Len(b.chain) : block_checks(b, i)

(***************************************************************************)
(* Inputs of the ledger API.                                               *)
(***************************************************************************)
Difficulties == {0, 2}          \* Blockchain::new(difficulty)
Clock == {7}                       \* values of Utc::now().timestamp()
Amounts == {0, 40, U64_MAX}
Miners == Wallets

\* transactions built as main.rs builds them: Transaction::new, then sign
\* with the sender's own wallet
SignedTransfers ==
    { sign(Transaction_new(s, r, a, 3), get_private_key(s), s) :
        s \in Wallets, r \in Wallets, a \in Amounts }

\* transactions a caller can also build: unsigned, signed with another
\* wallet's key, or carrying another wallet's public key
BadTransfers ==
    { Transaction_new("a1", "b2", 40, 3),
      sign(Transaction_new("a1", "b2", 40, 3), get_private_key("b2"), "a1"),
      sign(Transaction_new("a1", "b2", 40, 3), get_private_key("b2"), "b2") }

TxInputs == SignedTransfers \cup BadTransfers

\* transactions submitted so far that the ledger still holds
RECURSIVE TxCount(_)
TxCount(chain) ==
    IF chain = <<>> THEN 0
    ELSE (IF Head(chain).transactions = <<>> THEN 0
          ELSE Len(Head(chain).transactions) - 1) + TxCount(Tail(chain))

Submitted(b) == TxCount(b.chain) + Len(b.pending_transactions)

Sessions == {1, 2}

NoTx == Transaction_new("", "", 0, 0)
NoBlock == Block_new(0, "", <<>>, 0)
NoRequest == [kind |-> "none", tx |-> NoTx, addr |-> ""]
\* a response: its variant and message, and two observations about the
\* ledger operation behind it: whether it appended the request's transaction
\* to the pool, and whether it ran while another session was between the
\* drain and the append of a mining call
NoResponse == [kind |-> "none", text |-> "", appended |-> FALSE, midway |-> FALSE]
\* work also counts the ledger operations (match arms run under the lock)
\* done for the request being served
NoWork == [prev_chain_len |-> 0, new_block |-> NoBlock, ops |-> 0]

SessionsIdle ==
    /\ pc = [s \in Sessions |-> "idle"]
    /\ req = [s \in Sessions |-> NoRequest]
    /\ resp = [s \in Sessions |-> NoResponse]
    /\ work = [s \in Sessions |-> NoWork]
    /\ lock = 0

sessionVars == <<pc, req, resp, lock, work>>

\* no mine_block call and no transaction outside the ledger
NoMining == [block |-> NoBlock, difficulty |-> 0, at |-> "none", looped |-> FALSE]
NoTxn == [tx |-> NoTx, made |-> "none", field |-> "", class |-> ""]

UnitsIdle == blk = NoMining /\ txn = NoTxn

unitVars == <<blk, txn>>

(***************************************************************************)
(* Spec: the ledger driven through its public API by one caller, as        *)
(* main.rs drives it.                                                      *)
(***************************************************************************)
Init ==
    /\ \E d \in Difficulties, now \in Clock : bc = Blockchain_new(d, now)
    /\ last = [op |-> "new", arg |-> ""]
    /\ tampered = 0
    /\ SessionsIdle
    /\ UnitsIdle

AddTransaction(tx) ==
    /\ Submitted(bc) < MaxTxs
    /\ bc' = add_transaction(bc, tx)
    /\ last' = [op |-> "add_transaction", arg |-> ""]
    /\ UNCHANGED <<tampered, sessionVars, unitVars>>

MinePendingTransactions(miner_address, now) ==
    /\ Len(bc.chain) < MaxChain
    /\ bc' = mine_pending_transactions(bc, miner_address, now)
    /\ last' = [op |-> "mine_pending_transactions", arg |-> miner_address]
    /\ UNCHANGED <<tampered, sessionVars, unitVars>>

GetBalanceOfAddress(address) ==
    /\ last' = [op |-> "get_balance_of_address", arg |-> address]
    /\ UNCHANGED <<bc, tampered, sessionVars, unitVars>>

IsChainValid ==
    /\ last' = [op |-> "is_chain_valid", arg |-> ""]
    /\ UNCHANGED <<bc, tampered, sessionVars, unitVars>>

Next ==
    \/ \E tx \in TxInputs : AddTransaction(tx)
    \/ \E m \in Miners, now \in Clock : MinePendingTransactions(m, now)
    \/ \E a \in Wallets : GetBalanceOfAddress(a)
    \/ IsChainValid

Spec == Init /\ [][Next]_vars

(***************************************************************************)
(* SpecServer: handle_client (server.rs), one task per session, all        *)
(* sharing the ledger behind one Mutex.  A session is at                   *)
(*   "idle"     awaiting the next frame (socket.read_exact),               *)
(*   "decoded"  holding a decoded request, about to lock or to answer,     *)
(*   "locked"   holding the MutexGuard, about to run the ledger operation, *)
(*   "mining"   holding the MutexGuard inside mine_pending_transactions,   *)
(*              the pool drained and the new block not yet appended,       *)
(*   "reply"    holding the response, about to serialize and write it,     *)
(*   "closed"   after the loop has ended.                                  *)
(* handle_client takes the ledger as a parameter: the ledgers served are   *)
(* the one run_server builds and one that already holds a mined reward.    *)
(***************************************************************************)
ServerTxs ==
    { sign(Transaction_new("a1", "b2", 40, 3), get_private_key("a1"), "a1"),
      sign(Transaction_new("b2", "a1", 40, 3), get_private_key("b2"), "b2"),
      sign(Transaction_new("b2", "a1", U64_MAX, 3), get_private_key("b2"), "b2"),
      sign(Transaction_new("a1", "b2", 0, 3), get_private_key("a1"), "a1"),
      sign(Transaction_new("a1", "b2", 40, 3), get_private_key("b2"), "a1") }

ServerRequests ==
    { [kind |-> "AddTransaction", tx |-> t, addr |-> ""] : t \in ServerTxs }
    \cup { [kind |-> "MineBlock", tx |-> NoTx, addr |-> m] : m \in Miners }
    \cup { [kind |-> "GetBalance", tx |-> NoTx, addr |-> a] : a \in Wallets }
    \cup { [kind |-> "GetChain", tx |-> NoTx, addr |-> ""],
           [kind |-> "GenerateWallet", tx |-> NoTx, addr |-> ""] }

FreshLedger == Blockchain_new(SERVER_DIFFICULTY, 7)

FundedLedger ==
    mine_pending_transactions(
        add_transaction(FreshLedger,
            sign(Transaction_new("a1", "a1", 40, 3), get_private_key("a1"), "a1")),
        "a1", 7)

ServerLedgers == {FreshLedger, FundedLedger}

\* requests of a kind that sessions have decoded and not yet executed
InFlight(kind) ==
    Cardinality({t \in Sessions : pc[t] \in {"decoded", "locked"} /\ req[t].kind = kind})

\* mutant: lock() returns although another session holds the guard
lock_unchecked == TRUE

\* blockchain.lock().unwrap() returns once no session holds the guard
lock_available == lock = 0

\* mutant: the guard outlives the match arm and is held while writing
guard_kept(s) == s

\* the MutexGuard `bc` is dropped at the end of the match arm
guard_dropped(s) == 0

\* mutant: the balance looked up is the recipient's
insufficient_balance_of_recipient(b, tx) == get_balance_of_address(b, tx.recipient) < tx.amount

\* mutant: the comparison is turned around
insufficient_balance_reversed(b, tx) == get_balance_of_address(b, tx.sender) > tx.amount

\* bc.get_balance_of_address(&tx.sender) < tx.amount
insufficient_balance(b, tx) == get_balance_of_address(b, tx.sender) < tx.amount

Midway(s) == \E t \in Sessions \ {s} : pc[t] = "mining"

\* a response computed from the ledger by session s
Response(kind, text, appended, s) ==
    [kind |-> kind, text |-> text, appended |-> appended, midway |-> Midway(s)]

\* a response computed without the ledger
Answer(kind, text) ==
    [kind |-> kind, text |-> text, appended |-> FALSE, midway |-> FALSE]

ledgerVars == <<bc, last, tampered>>

\* mutant: the next frame is read while a response is still to be written
ready_to_read_early(s) == pc[s] \in {"idle", "reply"}

\* the head of the loop: socket.read_exact(&mut len_bytes)
ready_to_read(s) == pc[s] = "idle"

\* mutant: the deserialization error path leaves the loop
after_write_break_on_malformed(r) == IF r = NoRequest THEN "closed" ELSE "idle"

\* after the response is written the loop goes on: `continue` on the
\* deserialization error path, the end of the loop body otherwise
after_write(r) == "idle"

\* one more ledger operation done by session s
Operated(s) == [work EXCEPT ![s].ops = @ + 1]

InitServer ==
    /\ bc \in ServerLedgers
    /\ last = [op |-> "new", arg |-> ""]
    /\ tampered = 0
    /\ SessionsIdle
    /\ UnitsIdle

\* a frame is read and decodes as a Request
Recv(s, r) ==
    /\ ready_to_read(s)
    /\ r.kind = "AddTransaction"
         => Len(bc.pending_transactions) + InFlight("AddTransaction") < MaxPending
    /\ r.kind = "MineBlock" => Len(bc.chain) < MaxChain
    /\ pc' = [pc EXCEPT ![s] = "decoded"]
    /\ req' = [req EXCEPT ![s] = r]
    /\ UNCHANGED <<resp, lock, work, ledgerVars, unitVars>>

\* a frame is read and does not decode: Error response, then continue
RecvMalformed(s) ==
    /\ ready_to_read(s)
    /\ pc' = [pc EXCEPT ![s] = "reply"]
    /\ resp' = [resp EXCEPT ![s] = Answer("Error", "Invalid request format")]
    /\ UNCHANGED <<req, lock, work, ledgerVars, unitVars>>

\* read_exact fails or the length prefix is 0: break
Close(s) ==
    /\ ready_to_read(s)
    /\ pc' = [pc EXCEPT ![s] = "closed"]
    /\ UNCHANGED <<req, resp, lock, work, ledgerVars, unitVars>>

Lock(s) ==
    /\ pc[s] = "decoded"
    /\ req[s].kind \in {"AddTransaction", "MineBlock", "GetBalance", "GetChain"}
    /\ lock_available
    /\ lock' = s
    /\ pc' = [pc EXCEPT ![s] = "locked"]
    /\ UNCHANGED <<req, resp, work, ledgerVars, unitVars>>

ExecAddTransaction(s) ==
    /\ pc[s] = "locked" /\ req[s].kind = "AddTransaction"
    /\ IF insufficient_balance(bc, req[s].tx)
       THEN /\ bc' = bc
            /\ resp' = [resp EXCEPT ![s] = Response("Error", "insufficient balance", FALSE, s)]
       ELSE /\ bc' = add_transaction(bc, req[s].tx)
            /\ resp' = [resp EXCEPT ![s] =
                          Response("Success", "queued", add_transaction(bc, req[s].tx) # bc, s)]
    /\ lock' = guard_dropped(s)
    /\ pc' = [pc EXCEPT ![s] = "reply"]
    /\ work' = Operated(s)
    /\ UNCHANGED <<req, last, tampered, unitVars>>

\* mine_pending_transactions up to the proof-of-work search
ExecMineDrain(s, now) ==
    /\ pc[s] = "locked" /\ req[s].kind = "MineBlock"
    /\ IF bc.pending_transactions = <<>>
       THEN /\ bc' = bc
            /\ work' = Operated(s)
            /\ resp' = [resp EXCEPT ![s] = Response("Success", "nothing to mine", FALSE, s)]
            /\ lock' = guard_dropped(s)
            /\ pc' = [pc EXCEPT ![s] = "reply"]
       ELSE /\ bc' = mine_drain(bc, req[s].addr, now).ledger
            /\ work' = [work EXCEPT ![s] =
                          [prev_chain_len |-> Len(bc.chain),
                           new_block |-> mine_drain(bc, req[s].addr, now).new_block,
                           ops |-> work[s].ops + 1]]
            /\ resp' = resp
            /\ lock' = lock
            /\ pc' = [pc EXCEPT ![s] = "mining"]
    /\ UNCHANGED <<req, last, tampered, unitVars>>

\* add_block: the search ends, the block is appended, the guard is dropped
ExecMineAppend(s) ==
    /\ pc[s] = "mining"
    /\ bc' = add_block(bc, work[s].new_block)
    /\ resp' = [resp EXCEPT ![s] =
                  Response("Success",
                           IF Len(bc'.chain) > work[s].prev_chain_len
                           THEN "mined" ELSE "nothing to mine",
                           FALSE, s)]
    /\ lock' = guard_dropped(s)
    /\ pc' = [pc EXCEPT ![s] = "reply"]
    /\ UNCHANGED <<req, work, last, tampered, unitVars>>

ExecGetBalance(s) ==
    /\ pc[s] = "locked" /\ req[s].kind = "GetBalance"
    /\ resp' = [resp EXCEPT ![s] =
                  Response("Balance", ToString(get_balance_of_address(bc, req[s].addr)),
                           FALSE, s)]
    /\ lock' = guard_dropped(s)
    /\ pc' = [pc EXCEPT ![s] = "reply"]
    /\ work' = Operated(s)
    /\ UNCHANGED <<req, ledgerVars, unitVars>>

\* the snapshot is rendered as "<blocks>/<pending>"
ExecGetChain(s) ==
    /\ pc[s] = "locked" /\ req[s].kind = "GetChain"
    /\ resp' = [resp EXCEPT ![s] =
                  Response("Blockchain",
                           ToString(Len(bc.chain)) \o "/"
                               \o ToString(Len(bc.pending_transactions)),
                           FALSE, s)]
    /\ lock' = guard_dropped(s)
    /\ pc' = [pc EXCEPT ![s] = "reply"]
    /\ work' = Operated(s)
    /\ UNCHANGED <<req, ledgerVars, unitVars>>

GenerateWallet(s) ==
    /\ pc[s] = "decoded" /\ req[s].kind = "GenerateWallet"
    /\ resp' = [resp EXCEPT ![s] = Answer("Wallet", "")]
    /\ pc' = [pc EXCEPT ![s] = "reply"]
    /\ UNCHANGED <<req, lock, work, ledgerVars, unitVars>>

\* serde_json::to_vec(&response) and the two write_all calls succeed
Write(s) ==
    /\ pc[s] = "reply"
    /\ pc' = [pc EXCEPT ![s] = after_write(req[s])]
    /\ req' = [req EXCEPT ![s] = NoRequest]
    /\ resp' = [resp EXCEPT ![s] = NoResponse]
    /\ work' = [work EXCEPT ![s] = NoWork]
    /\ UNCHANGED <<lock, ledgerVars, unitVars>>

\* a write_all fails: `?` ends handle_client
WriteFails(s) ==
    /\ pc[s] = "reply"
    /\ pc' = [pc EXCEPT ![s] = "closed"]
    /\ req' = [req EXCEPT ![s] = NoRequest]
    /\ resp' = [resp EXCEPT ![s] = NoResponse]
    /\ work' = [work EXCEPT ![s] = NoWork]
    /\ UNCHANGED <<lock, ledgerVars, unitVars>>

NextServer ==
    \/ \E s \in Sessions, r \in ServerRequests : Recv(s, r)
    \/ \E s \in Sessions : RecvMalformed(s)
    \/ \E s \in Sessions : Close(s)
    \/ \E s \in Sessions : Lock(s)
    \/ \E s \in Sessions : ExecAddTransaction(s)
    \/ \E s \in Sessions, now \in Clock : ExecMineDrain(s, now)
    \/ \E s \in Sessions : ExecMineAppend(s)
    \/ \E s \in Sessions : ExecGetBalance(s)
    \/ \E s \in Sessions : ExecGetChain(s)
    \/ \E s \in Sessions : GenerateWallet(s)
    \/ \E s \in Sessions : Write(s)
    \/ \E s \in Sessions : WriteFails(s)

SpecServer == InitServer /\ [][NextServer]_vars

(***************************************************************************)
(* Claims checked under Spec.                                              *)
(***************************************************************************)
MinedBy(m) == last.op = "mine_pending_transactions" /\ last.arg = m

Chain(b) == b.chain
Pending(b) == b.pending_transactions

\* C1: is_chain_valid() is true on a freshly constructed ledger and after any
\* sequence of add_transaction calls with valid transactions and
\* mine_pending_transactions calls, with no tampering.
C1_ChainAlwaysValid == is_chain_valid(bc)

\* C3: on a freshly constructed ledger (difficulty 2, reward 100, genesis
\* only, empty pool) one mine_pending_transactions(M) call gives chain
\* length 2 and balance 100 for M.
C3_FirstMineRewards ==
    [][ \A m \in Miners :
          ( /\ Len(Chain(bc)) = 1 /\ Pending(bc) = <<>>
            /\ bc.difficulty = SERVER_DIFFICULTY
            /\ MinedBy(m)' )
          => ( /\ Len(Chain(bc')) = 2
               /\ get_balance_of_address(bc', m) = MINING_REWARD ) ]_vars

\* The case C4 is about: the pool holds exactly one transaction, a validly
\* signed transfer of k from A to B, B # A, 0 < k <= R = balance of A.
TransferCase(b, A, B) ==
    /\ Len(Pending(b)) = 1
    /\ Pending(b)[1].sender = A /\ Pending(b)[1].recipient = B
    /\ A # B
    /\ is_valid(Pending(b)[1])
    /\ Pending(b)[1].amount <= get_balance_of_address(b, A)

Reward(m, a) == IF m = a THEN MINING_REWARD ELSE 0

\* C4 as stated: after the transfer is mined by M the chain is one block
\* longer, A has R - k (plus the reward if M = A) and B has k more (plus the
\* reward if M = B).
C4_TransferExact ==
    [][ \A A \in Wallets, B \in Wallets, m \in Miners :
          (TransferCase(bc, A, B) /\ MinedBy(m)')
          => LET k == Pending(bc)[1].amount
             IN  /\ Len(Chain(bc')) = Len(Chain(bc)) + 1
                 /\ get_balance_of_address(bc', A)
                      = get_balance_of_address(bc, A) - k + Reward(m, A)
                 /\ get_balance_of_address(bc', B)
                      = get_balance_of_address(bc, B) + k + Reward(m, B) ]_vars

\* C4 amended: the same, provided neither credited balance passes u64::MAX
\* (the credits are saturating_add).
C4_TransferUnlessSaturated ==
    [][ \A A \in Wallets, B \in Wallets, m \in Miners :
          (TransferCase(bc, A, B) /\ MinedBy(m)')
          => LET k == Pending(bc)[1].amount
                 R == get_balance_of_address(bc, A)
                 RB == get_balance_of_address(bc, B)
             IN  /\ Len(Chain(bc')) = Len(Chain(bc)) + 1
                 /\ (R + Reward(m, A) <= U64_MAX)
                      => get_balance_of_address(bc', A) = R - k + Reward(m, A)
                 /\ (RB + k + Reward(m, B) <= U64_MAX)
                      => get_balance_of_address(bc', B) = RB + k + Reward(m, B) ]_vars

\* the concrete scenario: A = a1 holds 100, sends 40 to b2 and mines: 160 and 40
C4_Witness ==
    /\ MinedBy("a1")
    /\ Len(Chain(bc)) = 3
    /\ Len(Chain(bc)[3].transactions) = 2
    /\ Chain(bc)[3].transactions[2].sender = "a1"
    /\ Chain(bc)[3].transactions[2].recipient = "b2"
    /\ Chain(bc)[3].transactions[2].amount = 40
    /\ get_balance_of_address([bc EXCEPT !.chain = SubSeq(@, 1, 2)], "a1") = 100
    /\ get_balance_of_address(bc, "a1") = 160
    /\ get_balance_of_address(bc, "b2") = 40

\* C10: the chain is never empty, the genesis block has previous_hash "0" and
\* every other block's previous_hash is the stored hash of its predecessor.
C10_ChainLinked ==
    /\ Len(Chain(bc)) >= 1
    /\ Chain(bc)[1].previous_hash = "0"
    /\ \A i \in 2..Len(Chain(bc)) :
          Chain(bc)[i].previous_hash = Chain(bc)[i - 1].hash

C10_Witness ==
    /\ Len(Chain(bc)) = 3
    /\ Chain(bc)[3].previous_hash = Chain(bc)[2].hash
    /\ Chain(bc)[2].hash # Chain(bc)[1].hash

(***************************************************************************)
(* SpecTamper: the ledger API plus what main.rs does at its end: it        *)
(* prints is_chain_valid() and then writes to the pub fields of a stored   *)
(* block or of a transaction in it (one field per step), or stores         *)
(* calculate_hash() of the block without mining it again.                  *)
(***************************************************************************)
TamperStrings == {"", "0", "a1", "b2", COINBASE, UNSIGNED_COINBASE_TX, "INVALID_SIGNATURE"}
TamperNumbers == {0, 4, 999}
BlockStringFields == {"hash", "previous_hash"}
TxStringFields == {"sender", "recipient", "public_key", "signature"}
TxNumberFields == {"amount", "timestamp"}

Validity(b) == IF is_chain_valid(b) THEN "valid" ELSE "invalid"

Tampering(b1) ==
    /\ tampered < MaxTamper
    /\ b1 # bc
    /\ bc' = b1
    /\ tampered' = tampered + 1
    /\ last' = [op |-> "tamper", arg |-> Validity(bc)]
    /\ UNCHANGED <<sessionVars, unitVars>>

\* block_to_tamper.<f> = v
TamperBlock(i, f, v) == Tampering([bc EXCEPT !.chain[i][f] = v])

\* block_to_tamper.hash = block_to_tamper.calculate_hash()
TamperRehash(i) == Tampering([bc EXCEPT !.chain[i].hash = calculate_hash(bc.chain[i])])

\* block_to_tamper.transactions[j].<f> = v
TamperTx(i, j, f, v) == Tampering([bc EXCEPT !.chain[i].transactions[j][f] = v])

\* block_to_tamper.transactions[j].signature = another signature of the same
\* hash made with the key of the transaction's sender
TamperResign(i, j) ==
    LET tx == bc.chain[i].transactions[j]
    IN  Tampering([bc EXCEPT !.chain[i].transactions[j].signature =
                     ecdsa_other(get_private_key(tx.sender), calculate_hash_for_signing(tx))])

TamperTxInputs == { sign(Transaction_new("a1", "b2", 40, 3), get_private_key("a1"), "a1") }

InitTamper ==
    /\ \E now \in Clock : bc = Blockchain_new(SERVER_DIFFICULTY, now)
    /\ last = [op |-> "new", arg |-> ""]
    /\ tampered = 0
    /\ SessionsIdle
    /\ UnitsIdle

NextTamper ==
    \/ \E tx \in TamperTxInputs : AddTransaction(tx)
    \/ \E now \in Clock : MinePendingTransactions("a1", now)
    \/ \E i \in 1..Len(bc.chain), f \in BlockStringFields, v \in TamperStrings :
         TamperBlock(i, f, v)
    \/ \E i \in 1..Len(bc.chain) : TamperRehash(i)
    \/ \E i \in 1..Len(bc.chain) : \E j \in 1..Len(bc.chain[i].transactions) :
         \E f \in TxStringFields \cup TxNumberFields :
            \E v \in (IF f \in TxStringFields THEN TamperStrings ELSE TamperNumbers) :
               TamperTx(i, j, f, v)
    \/ \E i \in 1..Len(bc.chain) : \E j \in 1..Len(bc.chain[i].transactions) :
         TamperResign(i, j)

SpecTamper == InitTamper /\ [][NextTamper]_vars

\* what one tampering step changed
HashChanged(i) == bc'.chain[i].hash # bc.chain[i].hash
PreviousHashChanged(i) == bc'.chain[i].previous_hash # bc.chain[i].previous_hash
TxFieldChanged(i, j, f) == bc'.chain[i].transactions[j][f] # bc.chain[i].transactions[j][f]

TamperedFromValid == tampered' = tampered + 1 /\ is_chain_valid(bc)

\* C2 as stated: on a ledger on which is_chain_valid() is true, changing the
\* stored hash or previous_hash of any block (genesis included) or any field
\* of any contained transaction makes is_chain_valid() false.
C2_AnyTamperDetected ==
    [][ TamperedFromValid => ~is_chain_valid(bc') ]_vars

\* the changes is_chain_valid() does detect
DetectedChange ==
    \E i \in 1..Len(bc.chain) :
       \/ i >= 2 /\ (HashChanged(i) \/ PreviousHashChanged(i))
       \/ i = 1 /\ HashChanged(i) /\ Len(bc.chain) >= 2
       \/ \E j \in 1..Len(bc.chain[i].transactions) :
            LET tx == bc.chain[i].transactions[j]
                new == bc'.chain[i].transactions[j]
            IN  \/ \E f \in {"sender", "recipient", "amount", "timestamp"} :
                     TxFieldChanged(i, j, f)
                \/ TxFieldChanged(i, j, "public_key") /\ tx.sender # COINBASE
                \/ TxFieldChanged(i, j, "signature") /\ tx.sender = COINBASE
                \/ /\ TxFieldChanged(i, j, "signature")
                   /\ ~verify_prehash(tx.public_key, calculate_hash_for_signing(tx),
                                      new.signature)

\* C2 amended: on a ledger on which is_chain_valid() is true, is_chain_valid()
\* becomes false after a change of the hash or previous_hash of a non-genesis
\* block, of the genesis hash when a second block exists, of the sender,
\* recipient, amount or timestamp of a contained transaction, of the
\* public_key of a non-coinbase transaction, of the signature of a coinbase
\* transaction, or of a signature into a string that is no signature of the
\* same hash by the sender's key.
C2_TamperDetected ==
    [][ (TamperedFromValid /\ DetectedChange) => ~is_chain_valid(bc') ]_vars

\* a valid two-block chain was tampered with in a non-genesis block and the
\* check now fails
C2_Witness ==
    /\ last = [op |-> "tamper", arg |-> "valid"]
    /\ Len(bc.chain) = 2
    /\ bc.chain[2].transactions[2].amount = 999
    /\ ~is_chain_valid(bc)

(***************************************************************************)
(* Claims checked under SpecServer.                                        *)
(***************************************************************************)
Served(s, kind) == pc[s] = "reply" /\ req[s].kind = kind

\* the step in which session s runs the ledger operation of an AddTransaction
AddProcessed(s) ==
    pc[s] = "locked" /\ req[s].kind = "AddTransaction" /\ pc'[s] = "reply"

\* C5: when the handler processes AddTransaction(tx) with tx.amount greater
\* than the sender's balance on the current chain, it answers Error and the
\* ledger (the pool included) is unchanged.
C5_PreCheckRejects ==
    [][ \A s \in Sessions :
          ( /\ AddProcessed(s)
            /\ req[s].tx.amount > get_balance_of_address(bc, req[s].tx.sender) )
          => (resp'[s].kind = "Error" /\ bc' = bc) ]_vars

\* b2 holds nothing, asks to send 40 to a1, who holds 100, and is refused
C5_Witness ==
    \E s \in Sessions :
       /\ Served(s, "AddTransaction")
       /\ req[s].tx.sender = "b2" /\ req[s].tx.amount = 40
       /\ is_valid(req[s].tx)
       /\ get_balance_of_address(bc, "b2") = 0
       /\ get_balance_of_address(bc, "a1") = 100
       /\ resp[s].kind = "Error"
       /\ bc.pending_transactions = <<>>

\* C6: an AddTransaction whose transaction is not appended to the pool is
\* answered with Error, and Success is sent only when it was appended.
C6_RejectionsReported ==
    \A s \in Sessions :
       Served(s, "AddTransaction")
       => resp[s].kind = (IF resp[s].appended THEN "Success" ELSE "Error")

InCritical(s) == pc[s] \in {"locked", "mining"}

\* occurrences of transaction t in a sequence of transactions
RECURSIVE Occurrences(_, _)
Occurrences(t, txs) ==
    IF txs = <<>> THEN 0
    ELSE (IF Head(txs) = t THEN 1 ELSE 0) + Occurrences(t, Tail(txs))

RECURSIVE OccurrencesInChain(_, _)
OccurrencesInChain(t, chain) ==
    IF chain = <<>> THEN 0
    ELSE Occurrences(t, Head(chain).transactions) + OccurrencesInChain(t, Tail(chain))

\* copies of t the ledger holds: in blocks, in the pool, and in the block a
\* mining call has drained them into
RECURSIVE InMining(_, _)
InMining(t, ss) ==
    IF ss = {} THEN 0
    ELSE LET s == CHOOSE x \in ss : TRUE
         IN  (IF pc[s] = "mining" THEN Occurrences(t, work[s].new_block.transactions) ELSE 0)
             + InMining(t, ss \ {s})

Held(t) ==
    OccurrencesInChain(t, bc.chain) + Occurrences(t, bc.pending_transactions)
        + InMining(t, Sessions)

C7_State ==
    /\ Cardinality({s \in Sessions : InCritical(s) /\ req[s].kind = "MineBlock"}) <= 1
    /\ \A i \in 1..Len(bc.chain) : bc.chain[i].index = i - 1
    /\ \A i \in 1..Len(bc.chain), j \in 1..Len(bc.chain) :
          i # j => bc.chain[i].previous_hash # bc.chain[j].previous_hash
    /\ \A s \in Sessions :
          pc[s] = "mining" => work[s].new_block.index = Len(bc.chain)

C7_Step ==
    /\ \A s \in Sessions :
          (InCritical(s) /\ req[s].kind = "MineBlock" /\ pc'[s] = "reply")
          => /\ Len(bc'.chain) - Len(bc.chain) \in {0, 1}
             /\ pc[s] = "mining"
                  => /\ bc'.chain[Len(bc'.chain)].transactions = work[s].new_block.transactions
                     /\ SubSeq(bc'.chain, 1, Len(bc.chain)) = bc.chain
    /\ \A t \in ServerTxs : Held(t)' >= Held(t)

\* C7: at most one session executes mine_pending_transactions at any time,
\* a completed MineBlock call lengthens the chain by 0 or 1, every pooled
\* transaction stays held exactly once on its way into one block, a mined
\* block holds the transactions its own call drained, and no two blocks have
\* the same index or the same previous_hash.
C7_MiningExclusive == [](C7_State) /\ [][C7_Step]_vars

\* two sessions asked for MineBlock; one has drained a non-empty pool and is
\* searching, the other waits for the lock
C7_Witness ==
    \E s \in Sessions, t \in Sessions :
       /\ pc[s] = "mining" /\ Len(work[s].new_block.transactions) = 3
       /\ pc[t] = "decoded" /\ req[t].kind = "MineBlock"

\* C8: the lock is held only while the ledger operation of a request runs:
\* never while its session awaits a frame, never while it serializes and
\* writes the response, never after its loop ended.
C8_LockScope ==
    /\ \A s \in Sessions : pc[s] \in {"idle", "decoded", "reply", "closed"} => lock # s
    /\ lock # 0 => InCritical(lock)

\* one session writes a Balance response while the other holds the lock
C8_Witness ==
    \E s \in Sessions, t \in Sessions :
       /\ Served(s, "GetBalance") /\ resp[s].kind = "Balance"
       /\ lock = t /\ pc[t] = "mining"

\* C9: while a session is between the drain and the append of its mining
\* call it holds the lock, no other session is inside a ledger operation,
\* and no response was computed from the ledger in that intermediate state.
C9_MiningAtomic ==
    /\ \A s \in Sessions :
          pc[s] = "mining"
          => /\ lock = s
             /\ bc.pending_transactions = <<>>
             /\ \A t \in Sessions \ {s} : ~InCritical(t)
    /\ \A t \in Sessions : ~resp[t].midway

\* a session is mining while the other has decoded a GetChain and waits
C9_Witness ==
    \E s \in Sessions, t \in Sessions :
       /\ pc[s] = "mining" /\ lock = s
       /\ pc[t] = "decoded" /\ req[t].kind = "GetChain"

(***************************************************************************)
(* Further claims checked under Spec.                                      *)
(***************************************************************************)
Sealed(b, difficulty) ==
    b.hash = calculate_hash(b) /\ starts_with_zeros(b.hash, difficulty)

\* C11: every block stored in the chain, genesis included, has
\* hash == calculate_hash() over its current fields, and its hash starts with
\* `difficulty` zeros, in every state reached through the ledger's operations.
C11_BlocksSealed ==
    \A i \in 1..Len(Chain(bc)) : Sealed(Chain(bc)[i], bc.difficulty)

\* three blocks at difficulty 2, each found after a search of several nonces
C11_Witness ==
    /\ Len(Chain(bc)) = 3 /\ bc.difficulty = 2
    /\ \A i \in 1..3 : Chain(bc)[i].nonce > 1 /\ Sealed(Chain(bc)[i], 2)

C17_MinedBlockContent ==
    [][ \A m \in Miners :
          (Pending(bc) # <<>> /\ MinedBy(m)')
          => LET n == Len(Chain(bc))
                 new_block == Chain(bc')[n + 1]
             IN  /\ Len(Chain(bc')) = n + 1
                 /\ SubSeq(Chain(bc'), 1, n) = Chain(bc)
                 /\ Head(new_block.transactions).sender = COINBASE
                 /\ Head(new_block.transactions).recipient = m
                 /\ Head(new_block.transactions).amount = bc.mining_reward
                 /\ Tail(new_block.transactions) = Pending(bc)
                 /\ new_block.index = n
                 /\ new_block.previous_hash = Chain(bc)[n].hash
                 /\ Pending(bc') = <<>>
                 /\ bc'.difficulty = bc.difficulty
                 /\ bc'.mining_reward = bc.mining_reward ]_vars

\* a block mined from a pool of two different transfers
C17_Witness ==
    /\ MinedBy("b2")
    /\ Len(Chain(bc)) = 2 /\ Pending(bc) = <<>>
    /\ Len(Chain(bc)[2].transactions) = 3
    /\ Chain(bc)[2].transactions[1].recipient = "b2"
    /\ Chain(bc)[2].transactions[2].amount = 40
    /\ Chain(bc)[2].transactions[3].amount = U64_MAX

\* C20: the first transaction of every mined block is a reward made through
\* the coinbase signing path: sender "coinbase_reward", amount mining_reward,
\* signature "UNSIGNED_COINBASE_TX", and it passes is_valid().
C20_RewardSignedAsCoinbase ==
    \A i \in 2..Len(Chain(bc)) :
       LET reward_tx == Head(Chain(bc)[i].transactions)
       IN  /\ reward_tx.sender = COINBASE
           /\ reward_tx.recipient \in Miners
           /\ reward_tx.amount = bc.mining_reward
           /\ reward_tx.signature = UNSIGNED_COINBASE_TX
           /\ is_valid(reward_tx)

(***************************************************************************)
(* SpecMine: one call of Block::mine_block(difficulty), step by step, on   *)
(* a block a caller may hold: fresh from Block::new, or carrying a stored  *)
(* hash and nonce.  blk.at is "loop" at the test of the while loop,        *)
(* "returned" after the call and "panicked" after `self.nonce += 1`        *)
(* overflowed in a build with overflow checks; without them the nonce      *)
(* wraps.  blk.looped tells whether the loop body ran.                     *)
(* No digest of the model has more than two leading zeros, as no sha256    *)
(* hex digest has more than 64: difficulty 3 stands for those beyond.      *)
(***************************************************************************)
MineDifficulties == {0, 1, 2, 3}
MineNonces == {0, 8, 98, U64_MAX}
MineTransactions ==
    { <<>>, <<sign(Transaction_new("a1", "b2", 40, 3), get_private_key("a1"), "a1")>> }

FreshBlocks ==
    { Block_new(i, p, txs, now) :
        i \in {0, 1}, p \in {"0"}, txs \in MineTransactions, now \in Clock }

\* the stored hash of a block handed to mine_block: empty, its own hash,
\* or the hash of what the block was before its nonce was set
StoredHashes(b) ==
    { "", calculate_hash(b), calculate_hash([b EXCEPT !.nonce = 0]) }

MineBlocks ==
    UNION { { [b EXCEPT !.nonce = n, !.hash = h] :
                h \in StoredHashes([b EXCEPT !.nonce = n]) } :
            b \in FreshBlocks, n \in MineNonces }

InitMine ==
    /\ bc = FreshLedger
    /\ last = [op |-> "new", arg |-> ""]
    /\ tampered = 0
    /\ SessionsIdle
    /\ txn = NoTxn
    /\ \E b \in MineBlocks, d \in MineDifficulties :
          blk = [block |-> b, difficulty |-> d, at |-> "loop", looped |-> FALSE]

\* mutant: the hash is computed before the nonce is incremented
mine_block_iteration_stale(b) ==
    [b EXCEPT !.nonce = (b.nonce + 1) % (U64_MAX + 1), !.hash = calculate_hash(b)]

\* the loop body: self.nonce += 1 (wrapping at u64::MAX without overflow
\* checks); self.hash = self.calculate_hash()
mine_block_iteration(b) ==
    LET b1 == [b EXCEPT !.nonce = (b.nonce + 1) % (U64_MAX + 1)]
    IN  [b1 EXCEPT !.hash = calculate_hash(b1)]

\* while !self.hash.starts_with(&target_prefix): the test fails, return
MineReturn ==
    /\ blk.at = "loop"
    /\ starts_with_zeros(blk.block.hash, blk.difficulty)
    /\ blk' = [blk EXCEPT !.at = "returned"]
    /\ UNCHANGED <<ledgerVars, sessionVars, txn>>

\* the test of the while loop holds: one iteration
MineLoopBody ==
    /\ blk.at = "loop"
    /\ ~starts_with_zeros(blk.block.hash, blk.difficulty)
    /\ blk' = [blk EXCEPT !.block = mine_block_iteration(blk.block), !.looped = TRUE]
    /\ UNCHANGED <<ledgerVars, sessionVars, txn>>

\* self.nonce += 1 at u64::MAX with overflow checks: panic
MineOverflowPanic ==
    /\ blk.at = "loop"
    /\ ~starts_with_zeros(blk.block.hash, blk.difficulty)
    /\ blk.block.nonce = U64_MAX
    /\ blk' = [blk EXCEPT !.at = "panicked"]
    /\ UNCHANGED <<ledgerVars, sessionVars, txn>>

NextMine ==
    \/ MineReturn
    \/ MineLoopBody
    \/ MineOverflowPanic

\* the call is sequential code: it keeps running until it returns or panics
SpecMine == InitMine /\ [][NextMine]_vars /\ WF_vars(NextMine)

MineReturned == blk.at = "returned"

HashSealed == blk.block.hash = calculate_hash(blk.block)

FoundAbove(b, difficulty) ==
    \E n \in (b.nonce + 1)..U64_MAX :
       starts_with_zeros(calculate_hash([b EXCEPT !.nonce = n]), difficulty)

InitTx ==
    /\ bc = FreshLedger
    /\ last = [op |-> "new", arg |-> ""]
    /\ tampered = 0
    /\ SessionsIdle
    /\ blk = NoMining
    /\ \E tx \in TxUnsigned : txn = [tx |-> tx, made |-> "new", field |-> "", class |-> ""]

\* tx.sign(&wallet_w.to_signing_key(), public_key_hex)
TxSign(w, public_key_hex) ==
    /\ txn.made = "new"
    /\ txn' = [txn EXCEPT
                 !.tx = sign(txn.tx, get_private_key(w), public_key_hex),
                 !.made = IF w = txn.tx.sender /\ public_key_hex = txn.tx.sender
                          THEN "signed_by_sender" ELSE "signed"]
    /\ last' = [op |-> "sign", arg |-> w]
    /\ UNCHANGED <<bc, tampered, sessionVars, blk>>

\* one character of tx.signature or tx.public_key is overwritten
TxReplaceByte(f, i, class) ==
    /\ txn.made \in {"signed_by_sender", "signed"}
    /\ txn.field = ""
    /\ txn.tx[f] \in ByteTargets
    /\ class = "other_case" => hex_letter_at(txn.tx[f], i)
    /\ txn' = [txn EXCEPT !.tx[f] = replace_byte(@, i, class),
                          !.field = f, !.class = class]
    /\ last' = [op |-> "replace_byte", arg |-> f]
    /\ UNCHANGED <<bc, tampered, sessionVars, blk>>

TxIsValid ==
    /\ last' = [op |-> "is_valid", arg |-> IF is_valid(txn.tx) THEN "true" ELSE "false"]
    /\ UNCHANGED <<bc, tampered, sessionVars, unitVars>>

NextTx ==
    \/ \E w \in Wallets, pk \in Wallets : TxSign(w, pk)
    \/ \E f \in {"signature", "public_key"}, i \in HexPositions, class \in ByteClasses :
         TxReplaceByte(f, i, class)
    \/ TxIsValid

SpecTx == InitTx /\ [][NextTx]_vars

IsValidReturned(v) == last.op = "is_valid" /\ last.arg = v

\* C13 as stated: for every transaction, the coinbase sender included,
\* sender != public_key implies that is_valid() returns false.
C13_AnySenderBoundToKey ==
    (last.op = "is_valid" /\ txn.tx.sender # txn.tx.public_key)
    => IsValidReturned("false")

\* C13 amended: for every transaction whose sender is not "coinbase_reward",
\* sender != public_key implies that is_valid() returns false.
C13_SenderBoundToKey ==
    (last.op = "is_valid" /\ txn.tx.sender # COINBASE
        /\ txn.tx.sender # txn.tx.public_key)
    => IsValidReturned("false")

\* a transfer from a1 that carries b2's public key and b2's signature
C13_Witness ==
    /\ IsValidReturned("false")
    /\ txn.tx.sender = "a1" /\ txn.tx.public_key = "b2"
    /\ txn.tx.amount = 40 /\ txn.tx.recipient = "b2"
    /\ txn.tx.signature
         = sign_prehash(get_private_key("b2"), calculate_hash_for_signing(txn.tx))

\* a non-coinbase transaction with amount > 0 and a recipient, signed by
\* sign() with the key pair whose address is its sender
SignedBySender ==
    /\ txn.made = "signed_by_sender"
    /\ txn.tx.sender # COINBASE
    /\ txn.tx.amount > 0 /\ txn.tx.recipient # ""

\* C14 as stated: such a transaction is valid, and replacing any one
\* character of its signature or of its public_key by a different one makes
\* is_valid() false.
C14_AnyByteChangeInvalidates ==
    (SignedBySender /\ last.op = "is_valid")
    => IsValidReturned(IF txn.field = "" THEN "true" ELSE "false")

\* C14 amended: such a transaction is valid; replacing one character of its
\* public_key makes is_valid() false, and so does replacing one character of
\* its signature unless the new character is the same hex letter in the
\* other case, which leaves is_valid() true.
C14_ByteChangeInvalidates ==
    (SignedBySender /\ last.op = "is_valid")
    => IsValidReturned(IF txn.field = ""
                          \/ (txn.field = "signature" /\ txn.class = "other_case")
                       THEN "true" ELSE "false")

\* a valid signed transfer had a hex digit of its signature replaced by
\* another hex digit and is_valid() returned false
C14_Witness ==
    /\ SignedBySender /\ IsValidReturned("false")
    /\ txn.field = "signature" /\ txn.class = "other_hex_digit"
    /\ txn.tx.sender = txn.tx.public_key

(***************************************************************************)
(* Further claims checked under SpecServer.                                *)
(***************************************************************************)
\* session s holds the response to a frame that did not decode
MalformedReply(s) == pc[s] = "reply" /\ req[s] = NoRequest

C18_State ==
    \A s \in Sessions :
       MalformedReply(s) => (resp[s].kind = "Error" /\ lock # s /\ work[s].ops = 0)

C18_Step ==
    \A s \in Sessions :
       /\ (pc[s] = "idle" /\ pc'[s] = "reply")
            => (MalformedReply(s)' /\ bc' = bc /\ lock' = lock)
       /\ (MalformedReply(s) /\ Write(s)) => (pc'[s] = "idle" /\ bc' = bc)

\* C18: a frame whose payload does not decode as a Request gets one Error
\* response, the ledger is unchanged, and once the response is written the
\* session is back at reading the next frame of the same connection.
C18_MalformedAnswered == [](C18_State) /\ [][C18_Step]_vars

\* a malformed frame is being answered on a served ledger that holds a
\* mined block and a pooled transaction
C18_Witness ==
    \E s \in Sessions :
       /\ MalformedReply(s) /\ resp[s].kind = "Error"
       /\ Len(bc.chain) = 2 /\ Len(bc.pending_transactions) = 1

\* the order of the positions of handle_client
SessionTransitions ==
    { <<"idle", "decoded">>, <<"idle", "reply">>, <<"idle", "closed">>,
      <<"decoded", "locked">>, <<"decoded", "reply">>,
      <<"locked", "reply">>, <<"locked", "mining">>, <<"mining", "reply">>,
      <<"reply", "idle">>, <<"reply", "closed">> }

\* the response variants each request is answered with
ResponsesTo(kind) ==
    IF kind = "AddTransaction" THEN {"Success", "Error"}
    ELSE IF kind = "MineBlock" THEN {"Success"}
    ELSE IF kind = "GetBalance" THEN {"Balance"}
    ELSE IF kind = "GetChain" THEN {"Blockchain"}
    ELSE IF kind = "GenerateWallet" THEN {"Wallet"}
    ELSE {"Error"}

ProtocolState ==
    \A s \in Sessions :
       /\ pc[s] = "reply" => resp[s].kind \in ResponsesTo(req[s].kind)
       /\ pc[s] \in {"idle", "closed"} => (req[s] = NoRequest /\ resp[s] = NoResponse)
       /\ pc[s] \in {"decoded", "locked", "mining"} => resp[s] = NoResponse

\* the steps of a session: positions in order, a request taken only when
\* the previous one was answered, the loop left on a failed read without a
\* response and without a change of the ledger
ProtocolStep(s) ==
    /\ pc'[s] # pc[s] => <<pc[s], pc'[s]>> \in SessionTransitions
    /\ req'[s] # req[s]
         => \/ pc[s] = "idle" /\ pc'[s] = "decoded"
            \/ pc[s] = "reply" /\ pc'[s] \in {"idle", "closed"} /\ req'[s] = NoRequest
    /\ (pc[s] = "idle" /\ pc'[s] = "closed") => (bc' = bc /\ resp'[s] = NoResponse)

\* the response to a decoded request leaves session s
Answered(s) == pc[s] = "reply" /\ req[s] # NoRequest /\ pc'[s] # "reply"

\* C19 as stated: each decoded request causes exactly one ledger operation
\* and exactly one response, in the order received, the next frame is not
\* read before the response is written, and the loop ends without a
\* response and without touching the ledger on a zero-length frame or a
\* failed read.
C19_OneOperationEach ==
    /\ [](ProtocolState)
    /\ [][ \A s \in Sessions :
             ProtocolStep(s) /\ (Answered(s) => work[s].ops = 1) ]_vars

\* C19 amended: the same, with exactly one ledger operation for
\* AddTransaction, MineBlock, GetBalance and GetChain and none for
\* GenerateWallet.
C19_OneOperationUnlessWallet ==
    /\ [](ProtocolState)
    /\ [][ \A s \in Sessions :
             /\ ProtocolStep(s)
             /\ Answered(s)
                  => work[s].ops = (IF req[s].kind = "GenerateWallet" THEN 0 ELSE 1) ]_vars

\* a MineBlock that mined a block is about to be answered, after one
\* ledger operation, while the other session has read its next request
C19_Witness ==
    \E s \in Sessions, t \in Sessions :
       /\ Served(s, "MineBlock") /\ resp[s].text = "mined" /\ work[s].ops = 1
       /\ pc[t] = "decoded" /\ req[t].kind = "GenerateWallet"

(***************************************************************************)
(* Balances, the frame of the ledger API, and replays: checked under Spec. *)
(***************************************************************************)
\* all transactions of the chain, in chain order and block order
RECURSIVE AllTransactions(_)
AllTransactions(chain) ==
    IF chain = <<>> THEN <<>>
    ELSE Head(chain).transactions \o AllTransactions(Tail(chain))

Min(x, y) == IF x <= y THEN x ELSE y
Max(x, y) == IF x >= y THEN x ELSE y

\* the reference replay: the balance after the first n transactions
RECURSIVE Replay(_, _, _)
Replay(txs, n, a) ==
    IF n = 0 THEN 0
    ELSE LET before == Replay(txs, n - 1, a)
             tx == txs[n]
             debited == IF tx.sender = a /\ a # COINBASE
                        THEN Max(before - tx.amount, 0) ELSE before
         IN  IF tx.recipient = a THEN Min(debited + tx.amount, U64_MAX) ELSE debited

Addresses == Wallets \cup {COINBASE, ""}

\* C21: get_balance_of_address(a) is the reference replay from 0 over all
\* transactions in chain order and block order (debit saturating at 0 if a is
\* the sender and not the coinbase sentinel, then credit saturating at
\* u64::MAX if a is the recipient); the pool does not contribute and the call
\* changes no ledger state.
C21_BalanceIsReplay ==
    /\ [](\A a \in Addresses :
            /\ get_balance_of_address(bc, a)
                 = Replay(AllTransactions(Chain(bc)), Len(AllTransactions(Chain(bc))), a)
            /\ get_balance_of_address(bc, a)
                 = get_balance_of_address([bc EXCEPT !.pending_transactions = <<>>], a))
    /\ [][ last'.op = "get_balance_of_address" => bc' = bc ]_vars

\* the balance of a1 was asked for after b2 mined a1's transfer to itself on
\* an empty balance, with another transfer to a1 waiting in the pool
C21_Witness ==
    /\ last = [op |-> "get_balance_of_address", arg |-> "a1"]
    /\ Len(Chain(bc)) = 2
    /\ Chain(bc)[2].transactions[1].recipient = "b2"
    /\ Chain(bc)[2].transactions[2].sender = "a1"
    /\ Chain(bc)[2].transactions[2].recipient = "a1"
    /\ Chain(bc)[2].transactions[2].amount = 40
    /\ get_balance_of_address(bc, "a1") = 40
    /\ Len(Pending(bc)) = 1 /\ Pending(bc)[1].recipient = "a1"
    /\ Pending(bc)[1].amount = 40

\* C22: across add_transaction, mine_pending_transactions,
\* get_balance_of_address and is_chain_valid calls the old chain is a prefix
\* of the new chain, each block's index is its position, and difficulty and
\* mining_reward keep their construction-time values.
C22_AppendOnly ==
    /\ [](/\ \A i \in 1..Len(Chain(bc)) : Chain(bc)[i].index = i - 1
          /\ bc.mining_reward = MINING_REWARD)
    /\ [][ /\ Len(Chain(bc')) >= Len(Chain(bc))
           /\ SubSeq(Chain(bc'), 1, Len(Chain(bc))) = Chain(bc)
           /\ bc'.difficulty = bc.difficulty
           /\ bc'.mining_reward = bc.mining_reward ]_vars

\* a third block was appended behind two that are as they were
C22_Witness ==
    /\ last.op = "mine_pending_transactions"
    /\ Len(Chain(bc)) = 3 /\ bc.difficulty = 0
    /\ Chain(bc)[3].index = 2 /\ Chain(bc)[2].index = 1 /\ Chain(bc)[1].index = 0
    /\ Len(Chain(bc)[2].transactions) = 2 /\ Len(Chain(bc)[3].transactions) = 2

\* C26: a signed transaction is held at most once in the pool and the blocks
\* together; submitting it again adds no second copy.
C26_NoReplay ==
    \A t \in TxInputs :
       OccurrencesInChain(t, Chain(bc)) + Occurrences(t, Pending(bc)) <= 1

(***************************************************************************)
(* SpecClients: the session handler of SpecServer serving clients that     *)
(* send whole-reward transfers, a transfer to the address                  *)
(* "coinbase_reward", a transaction that names "coinbase_reward" as its    *)
(* sender and carries the coinbase signature sentinel, and a transfer of   *)
(* 0.  last.arg records which ledger the server was started with.          *)
(***************************************************************************)
ClientTxs ==
    { sign(Transaction_new("a1", "b2", MINING_REWARD, 3), get_private_key("a1"), "a1"),
      sign(Transaction_new("a1", COINBASE, MINING_REWARD, 3), get_private_key("a1"), "a1"),
      sign(Transaction_new(COINBASE, "b2", MINING_REWARD, 3), get_private_key("b2"), "b2"),
      sign(Transaction_new("a1", "b2", 0, 3), get_private_key("a1"), "a1") }

ClientRequests ==
    { [kind |-> "AddTransaction", tx |-> t, addr |-> ""] : t \in ClientTxs }
    \cup { [kind |-> "MineBlock", tx |-> NoTx, addr |-> m] : m \in Miners }
    \cup { [kind |-> "GetBalance", tx |-> NoTx, addr |-> a] : a \in Wallets }
    \cup { [kind |-> "GetChain", tx |-> NoTx, addr |-> ""],
           [kind |-> "GenerateWallet", tx |-> NoTx, addr |-> ""] }

InitClients ==
    /\ bc \in ServerLedgers
    /\ last = [op |-> "new", arg |-> IF bc = FreshLedger THEN "fresh" ELSE "funded"]
    /\ tampered = 0
    /\ SessionsIdle
    /\ UnitsIdle

NextClients ==
    \/ \E s \in Sessions, r \in ClientRequests : Recv(s, r)
    \/ \E s \in Sessions : RecvMalformed(s)
    \/ \E s \in Sessions : Close(s)
    \/ \E s \in Sessions : Lock(s)
    \/ \E s \in Sessions : ExecAddTransaction(s)
    \/ \E s \in Sessions, now \in Clock : ExecMineDrain(s, now)
    \/ \E s \in Sessions : ExecMineAppend(s)
    \/ \E s \in Sessions : ExecGetBalance(s)
    \/ \E s \in Sessions : ExecGetChain(s)
    \/ \E s \in Sessions : GenerateWallet(s)
    \/ \E s \in Sessions : Write(s)
    \/ \E s \in Sessions : WriteFails(s)

SpecClients == InitClients /\ [][NextClients]_vars

StartedFresh == last.arg = "fresh"

RECURSIVE SumFrom(_, _)
SumFrom(a, txs) ==
    IF txs = <<>> THEN 0
    ELSE (IF Head(txs).sender = a THEN Head(txs).amount ELSE 0) + SumFrom(a, Tail(txs))

\* C24: before the next mining, the amounts of a sender's transactions in
\* the pool never add up to more than the sender's on-chain balance.
C24_NoOverdraftInPool ==
    Chain(bc) \in {Chain(FreshLedger), Chain(FundedLedger)}
    => \A a \in Wallets : SumFrom(a, Pending(bc)) <= get_balance_of_address(bc, a)

RECURSIVE SumOfBalances(_, _)
SumOfBalances(b, as) ==
    IF as = {} THEN 0
    ELSE LET a == CHOOSE x \in as : TRUE
         IN  get_balance_of_address(b, a) + SumOfBalances(b, as \ {a})

\* C25: the balances of all addresses add up to mining_reward times the
\* number of non-genesis blocks, in the ledgers served at the start (where it
\* holds) and after every AddTransaction and MineBlock request.
C25_SupplyConserved ==
    SumOfBalances(bc, Addresses) = bc.mining_reward * (Len(Chain(bc)) - 1)

\* transactions of a sequence whose sender is the coinbase sentinel
RECURSIVE CoinbaseCount(_)
CoinbaseCount(txs) ==
    IF txs = <<>> THEN 0
    ELSE (IF Head(txs).sender = COINBASE THEN 1 ELSE 0) + CoinbaseCount(Tail(txs))

\* C27: every non-genesis block holds exactly one transaction whose sender
\* is the coinbase sentinel, at position 0, and the pool holds none.
C27_RewardsOnlyByLedger ==
    /\ \A i \in 2..Len(Chain(bc)) :
          /\ Chain(bc)[i].transactions[1].sender = COINBASE
          /\ CoinbaseCount(Chain(bc)[i].transactions) = 1
    /\ CoinbaseCount(Pending(bc)) = 0

(***************************************************************************)
(* SpecPayload: the signing payload as a function of the four signed       *)
(* fields.  A transaction is built, signed by its sender, and then its     *)
(* recipient, amount and timestamp (pub fields, and whatever a client puts *)
(* on the wire) are overwritten while sender, public_key and signature     *)
(* stay; txn.signed keeps the transaction as it was signed.                *)
(***************************************************************************)
PayloadRecipients == {"b2", "b21"}
PayloadAmounts == {1, 2, 12}
PayloadTimestamps == {3, 23}

PayloadTxs ==
    { Transaction_new(s, r, a, t) :
        s \in Wallets, r \in PayloadRecipients, a \in PayloadAmounts,
        t \in PayloadTimestamps }

InitPayload ==
    /\ bc = FreshLedger
    /\ last = [op |-> "new", arg |-> ""]
    /\ tampered = 0
    /\ SessionsIdle
    /\ blk = NoMining
    /\ \E tx \in PayloadTxs :
          txn = [tx |-> tx, made |-> "new", field |-> "", class |-> "", signed |-> NoTx]

\* tx.sign(&wallet.to_signing_key(), &wallet.address) by the sender's wallet
PayloadSign ==
    /\ txn.made = "new"
    /\ LET signed == sign(txn.tx, get_private_key(txn.tx.sender), txn.tx.sender)
       IN  txn' = [txn EXCEPT !.tx = signed, !.made = "signed_by_sender",
                              !.signed = signed]
    /\ last' = [op |-> "sign", arg |-> txn.tx.sender]
    /\ UNCHANGED <<bc, tampered, sessionVars, blk>>

\* recipient, amount and timestamp are overwritten, at least one with a
\* different value
PayloadOverwrite(r, a, t) ==
    /\ txn.made = "signed_by_sender"
    /\ <<r, a, t>> # <<txn.tx.recipient, txn.tx.amount, txn.tx.timestamp>>
    /\ txn' = [txn EXCEPT !.tx.recipient = r, !.tx.amount = a, !.tx.timestamp = t,
                          !.made = "overwritten"]
    /\ last' = [op |-> "overwrite", arg |-> ""]
    /\ UNCHANGED <<bc, tampered, sessionVars, blk>>

NextPayload ==
    \/ PayloadSign
    \/ \E r \in PayloadRecipients, a \in PayloadAmounts, t \in PayloadTimestamps :
         PayloadOverwrite(r, a, t)
    \/ TxIsValid

SpecPayload == InitPayload /\ [][NextPayload]_vars

\* the four signed fields written one after the other
Concatenation(tx) ==
    tx.sender \o tx.recipient \o ToString(tx.amount) \o ToString(tx.timestamp)

\* how many of the signed fields differ between two transactions
FieldsChanged(t1, t2) ==
    Cardinality({f \in {"sender", "recipient", "amount", "timestamp"} : t1[f] # t2[f]})

====
